---- MODULE Spec2Model ----
(***************************************************************************)
(* Suko puzzle generation: the synthesizer and verifier of                 *)
(* scripts/test_suko_uniqueness.py and the dataset loop of                 *)
(* scripts/generate_suko_dataset.py.                                       *)
(*                                                                         *)
(* Python lists and tuples are sequences; a Python index i is the          *)
(* sequence index i + 1 (see PyIndex).  Every random draw is an input: an  *)
(* action draws it with \E, a pure operator takes it as an argument.       *)
(***************************************************************************)
EXTENDS Integers, Sequences, FiniteSets, TLC

VARIABLES run, rerun, lead, synth

vars == <<run, rerun, lead, synth>>

(***************************************************************************)
(* Bounds of the model.                                                    *)
(***************************************************************************)
\* largest num_puzzles requested from generate_dataset
MaxNum == 2
\* deepest generate_colors recursion the stepwise synthesizer follows
MaxDepth == 2
\* calls of generate_unique_puzzle given up before a stream of SpecPrefix
\* runs out of unique candidates
MaxGivenUp == 1
\* largest num_puzzles given to test_uniqueness
MaxTests == 4
\* largest num_puzzles of a call whose solve_puzzle calls are counted
MaxCounted == 1
\* largest seed given to deal_freecell
MaxDealSeed == 1

(***************************************************************************)
(* Python values.                                                          *)
(***************************************************************************)
\* None, and an optional integer n as <<n>>
None == <<>>

\* list[i] with Python's negative indices
PyIndex(list, i) == IF i < 0 THEN list[Len(list) + i + 1] ELSE list[i + 1]

\* list[a:b] taking the element at b as well
PySlice_inclusive(list, a, b) ==
    LET hi == IF b + 1 < Len(list) THEN b + 1 ELSE Len(list)
    IN  IF a >= hi THEN <<>> ELSE [k \in 1..(hi - a) |-> list[a + k]]

\* list[a:b] for 0 <= a, 0 <= b: the slice is clamped to the list
PySlice(list, a, b) ==
    LET hi == IF b < Len(list) THEN b ELSE Len(list)
    IN  IF a >= hi THEN <<>> ELSE [k \in 1..(hi - a) |-> list[a + k]]

\* list(range(a, b))
PyRange(a, b) == IF b <= a THEN <<>> ELSE [k \in 1..(b - a) |-> a + k - 1]

RECURSIVE SumSeq(_)
\* sum(...) over the values of a sequence
SumSeq(s) == IF s = <<>> THEN 0 ELSE Head(s) + SumSeq(Tail(s))

DigitChars == <<"0", "1", "2", "3", "4", "5", "6", "7", "8", "9">>

RECURSIVE ToStr(_)
\* str(n) for n >= 0, as the sequence of its decimal digit characters
ToStr(n) == IF n < 10 THEN <<DigitChars[n + 1]>>
            ELSE ToStr(n \div 10) \o <<DigitChars[(n % 10) + 1]>>

\* int(digit) for one digit character
ToInt(digit) == (CHOOSE k \in 1..10 : DigitChars[k] = digit) - 1

RECURSIVE Join(_)
\* ''.join(map(str, numbers))
Join(numbers) == IF numbers = <<>> THEN <<>>
                 ELSE ToStr(Head(numbers)) \o Join(Tail(numbers))

IsPermutation(s) ==
    /\ Len(s) = 9
    /\ \A v \in 1..9 : \E k \in 1..9 : s[k] = v

(***************************************************************************)
(* scripts/test_suko_uniqueness.py: synthesizer and verifier.              *)
(***************************************************************************)
RECURSIVE shuffle(_, _, _)
\* random.shuffle(x): for i = len(x)-1 down to 1, swap x[i] with x[j],
\* j = randbelow(i + 1).  js lists the draws j in the order they are made;
\* i is the Python index of the next swap.
shuffle(x, js, i) ==
    IF i < 1 THEN x
    ELSE LET j == Head(js)
             swapped == [x EXCEPT ![i + 1] = x[j + 1], ![j + 1] = x[i + 1]]
         IN  shuffle(swapped, Tail(js), i - 1)

\* the draws one shuffle of a 9-element list can make: js[k] in 0..(9 - k)
IsShuffleDraw(js) == Len(js) = 8 /\ \A k \in 1..8 : js[k] \in 0..(9 - k)

\* generate_random_pattern starting from list(range(0, 9))
generate_random_pattern_from_zero(js) ==
    LET pattern == PyRange(0, 9)
    IN  shuffle(pattern, js, Len(pattern) - 1)

generate_random_pattern(js) ==
    LET pattern == PyRange(1, 10)
    IN  shuffle(pattern, js, Len(pattern) - 1)

corner_indices == << <<0, 1, 3, 4>>, <<1, 2, 4, 5>>, <<3, 4, 6, 7>>, <<4, 5, 7, 8>> >>

\* sum(pattern[i] for i in indices), for the non-negative corner indices
SumAt(pattern, indices) ==
    pattern[indices[1] + 1] + pattern[indices[2] + 1]
        + pattern[indices[3] + 1] + pattern[indices[4] + 1]

\* calculate_sums with the top-right and bottom-left index sets exchanged
calculate_sums_transposed(pattern) ==
    <<SumAt(pattern, corner_indices[1]), SumAt(pattern, corner_indices[3]),
      SumAt(pattern, corner_indices[2]), SumAt(pattern, corner_indices[4])>>

calculate_sums(pattern) ==
    [k \in 1..Len(corner_indices) |-> SumAt(pattern, corner_indices[k])]

\* the values random.randint(a, b) can return
randint(a, b) == a..b

\* line 28 computed from 10
color3_of_ten(color1, color2) == 10 - color1 - color2

\* one level of generate_colors on the draws color1, color2
color3_of(color1, color2) == 9 - color1 - color2

\* the test of line 29 without its lower bound
colors_accepted_upper_only(color1, color2) == color3_of(color1, color2) <= 5

colors_accepted(color1, color2) ==
    LET color3 == color3_of(color1, color2)
    IN  2 <= color3 /\ color3 <= 5

RECURSIVE generate_colors(_)
\* generate_colors on the randint results it draws, in order, two per level;
\* the result is the triple returned and the number of recursive calls made
generate_colors(draws) ==
    LET color1 == draws[1]
        color2 == draws[2]
        color3 == color3_of(color1, color2)
    IN  IF colors_accepted(color1, color2)
        THEN [colors |-> <<color1, color2, color3>>, depth |-> 0]
        ELSE LET inner == generate_colors(SubSeq(draws, 3, Len(draws)))
             IN  [colors |-> inner.colors, depth |-> inner.depth + 1]

RECURSIVE IsColorDraw(_)
\* draws is exactly what one call of generate_colors consumes
IsColorDraw(draws) ==
    /\ Len(draws) >= 2
    /\ draws[1] \in randint(2, 5)
    /\ draws[2] \in randint(2, 5)
    /\ IF colors_accepted(draws[1], draws[2]) THEN Len(draws) = 2
       ELSE IsColorDraw(SubSeq(draws, 3, Len(draws)))

\* sum(pattern[int(digit)-1] for digit in digits)
SumDigits(pattern, digits) ==
    SumSeq([k \in 1..Len(digits) |-> PyIndex(pattern, ToInt(digits[k]) - 1)])

\* the Python indices int(digit)-1 that lines 38-40 sum over, for green,
\* orange and yellow
color_positions(color_pattern, colors) ==
    LET sorting_number == Join(color_pattern)
        positions(digits) == [k \in 1..Len(digits) |-> ToInt(digits[k]) - 1]
    IN  <<positions(PySlice(sorting_number, 0, colors[1])),
          positions(PySlice(sorting_number, colors[1], colors[1] + colors[2])),
          positions(PySlice(sorting_number, colors[1] + colors[2], 9))>>

\* calculate_color_sums with the orange slice ending at colors[1]
calculate_color_sums_short_orange(pattern, color_pattern, colors) ==
    LET sorting_number == Join(color_pattern)
        green_sum  == SumDigits(pattern, PySlice(sorting_number, 0, colors[1]))
        orange_sum == SumDigits(pattern, PySlice(sorting_number, colors[1], colors[2]))
        yellow_sum == SumDigits(pattern,
                          PySlice(sorting_number, colors[1] + colors[2], 9))
    IN  <<green_sum, orange_sum, yellow_sum>>

calculate_color_sums(pattern, color_pattern, colors) ==
    LET sorting_number == Join(color_pattern)
        green_sum  == SumDigits(pattern, PySlice(sorting_number, 0, colors[1]))
        orange_sum == SumDigits(pattern,
                          PySlice(sorting_number, colors[1], colors[1] + colors[2]))
        yellow_sum == SumDigits(pattern,
                          PySlice(sorting_number, colors[1] + colors[2], 9))
    IN  <<green_sum, orange_sum, yellow_sum>>

\* check_constraints without the comparison of the yellow sum
check_constraints_no_yellow(solution, sums, color_pattern, colors, color_sums) ==
    /\ \A i \in 1..Len(corner_indices) :
           SumAt(solution, corner_indices[i]) = sums[i]
    /\ LET sorting_number == Join(color_pattern)
           green_sum  == SumDigits(solution, PySlice(sorting_number, 0, colors[1]))
           orange_sum == SumDigits(solution,
                             PySlice(sorting_number, colors[1], colors[1] + colors[2]))
       IN  ~ (\/ green_sum # color_sums[1]
              \/ orange_sum # color_sums[2])

check_constraints(solution, sums, color_pattern, colors, color_sums) ==
    /\ \A i \in 1..Len(corner_indices) :
           SumAt(solution, corner_indices[i]) = sums[i]
    /\ LET sorting_number == Join(color_pattern)
           green_sum  == SumDigits(solution, PySlice(sorting_number, 0, colors[1]))
           orange_sum == SumDigits(solution,
                             PySlice(sorting_number, colors[1], colors[1] + colors[2]))
           yellow_sum == SumDigits(solution,
                             PySlice(sorting_number, colors[1] + colors[2], 9))
       IN  ~ (\/ green_sum # color_sums[1]
              \/ orange_sum # color_sums[2]
              \/ yellow_sum # color_sums[3])

\* generate_puzzle on the random outcomes it draws: the swaps of the first
\* shuffle, the randint results of generate_colors, the swaps of the second
generate_puzzle(d) ==
    LET pattern1 == generate_random_pattern(d.shuffle1)
        sums == calculate_sums(pattern1)
        colors == generate_colors(d.randints).colors
        pattern2 == generate_random_pattern(d.shuffle2)
        color_sums == calculate_color_sums(pattern1, pattern2, colors)
    IN  [solution |-> pattern1, sums |-> sums, color_pattern |-> pattern2,
         colors |-> colors, color_sums |-> color_sums]

(***************************************************************************)
(* The random outcomes the dataset loop is checked on: what one call of    *)
(* generate_puzzle takes from the generator.  Two shuffles and one         *)
(* generate_colors run (5,5 is rejected, 2,3 gives (2,3,4)) are combined   *)
(* into three candidates: two have one solution, the third has two.        *)
(***************************************************************************)
ShuffleDraws == { <<2, 7, 3, 5, 1, 0, 1, 0>>, <<5, 6, 0, 4, 3, 2, 1, 0>> }

RandintDraws == { <<5, 5, 2, 3>> }

RandomOutcomes ==
    { d \in [shuffle1 : ShuffleDraws, randints : RandintDraws, shuffle2 : ShuffleDraws] :
        d.shuffle1 # <<2, 7, 3, 5, 1, 0, 1, 0>> \/ d.shuffle2 # d.shuffle1 }

\* the number of values one generate_puzzle call takes from the generator
Consumed(d) == Len(d.shuffle1) + Len(d.randints) + Len(d.shuffle2)

(***************************************************************************)
(* solve_puzzle.                                                           *)
(***************************************************************************)
\* itertools.permutations(items) for distinct items, as a set of tuples (the
\* tuples of 1..n are TLC's Permutations(1..n), taken directly)
permutations(items) ==
    IF items = [k \in 1..Len(items) |-> k] THEN Permutations(1..Len(items))
    ELSE { [k \in 1..Len(items) |-> items[f[k]]] : f \in Permutations(1..Len(items)) }

\* a comes before b in the order itertools.permutations yields the tuples of
\* an increasing range (lexicographic)
YieldedBefore(a, b) ==
    \E k \in 1..Len(a) : a[k] < b[k] /\ \A m \in 1..(k - 1) : a[m] = b[m]

RECURSIVE InYieldOrder(_)
\* the tuples of a set in the order they are yielded
InYieldOrder(S) ==
    IF S = {} THEN <<>>
    ELSE LET first == CHOOSE a \in S : \A b \in S \ {a} : YieldedBefore(a, b)
         IN  <<first>> \o InYieldOrder(S \ {first})

AllOrderings == permutations(PyRange(1, 10))

\* solve_puzzle returning from inside the loop at the first permutation that
\* passes
scan_first_hit(sums, color_pattern, colors, color_sums) ==
    LET hits == InYieldOrder({ perm \in AllOrderings :
                    check_constraints(perm, sums, color_pattern, colors, color_sums) })
    IN  IF hits = <<>> THEN <<>> ELSE <<Head(hits)>>

\* the loop of solve_puzzle: every permutation is tested, the ones that pass
\* are appended in the order they are met
scan_permutations(sums, color_pattern, colors, color_sums) ==
    InYieldOrder({ perm \in AllOrderings :
                     check_constraints(perm, sums, color_pattern, colors, color_sums) })

ConstraintsOf(puzzle) ==
    <<puzzle.sums, puzzle.color_pattern, puzzle.colors, puzzle.color_sums>>

\* the scan of every constraint set the random outcomes above can produce,
\* computed once and kept as an explicit table (@@ builds one)
ScanMemo ==
    <<>> @@ [c \in { ConstraintsOf(generate_puzzle(d)) : d \in RandomOutcomes } |->
                scan_permutations(c[1], c[2], c[3], c[4])]

solve_puzzle(sums, color_pattern, colors, color_sums) ==
    LET c == <<sums, color_pattern, colors, color_sums>>
    IN  IF c \in DOMAIN ScanMemo THEN ScanMemo[c]
        ELSE scan_permutations(sums, color_pattern, colors, color_sums)

(***************************************************************************)
(* scripts/generate_suko_dataset.py.                                       *)
(*                                                                         *)
(* One execution of generate_dataset is a record r:                        *)
(*   pc                  "start", "while" (line 86), "for" (line 30),      *)
(*                       "report" (line 99), "done", "raised"              *)
(*   process             the interpreter process running it                *)
(*   num_puzzles, seed   the arguments; seed is None or <<n>>              *)
(*   rng                 the state of the module-level generator of        *)
(*                       random: the stream of values it is on             *)
(*   puzzles, attempts, max_total_attempts, puzzle_id, puzzle, success     *)
(*                       the locals of generate_dataset                    *)
(*   tries               iterations of the for loop of the current         *)
(*                       generate_unique_puzzle call that have failed (0   *)
(*                       outside a call)                                   *)
(*   candidate, solutions                                                  *)
(*                       the locals puzzle and solutions of the latest     *)
(*                       generate_unique_puzzle iteration                  *)
(*   warning             None, or <<the counts of the warning printed>>    *)
(*   file                None, or <<dataset>> once json.dump has run       *)
(*   summary             None, or <<the statistics printed>>               *)
(*   error               None, or <<the exception that ended the call>>    *)
(***************************************************************************)
\* max_attempts=50 of the call on line 89
MaxAttempts == 50
\* the factor of max_total_attempts on line 80
BudgetFactor == 200

SeedValues == {42}

\* a generator seeded with n is on the stream of n; an unseeded one is on
\* the stream of the entropy its process started with
SeededStream(n) == <<"seed", n>>
EntropyStream(process) == <<"entropy", process>>

\* lines 75-76 left out: the generator is never seeded
seed_ignored(r) == r.rng

\* lines 75-76
seed_generator(r) ==
    IF r.seed # None THEN [stream |-> SeededStream(r.seed[1])]
    ELSE r.rng

\* puzzle_to_dict with the orange and yellow entries of colors exchanged
puzzle_to_dict_colors_swapped(puzzle, puzzle_id, seed) ==
    [id |-> puzzle_id,
     seed |-> seed,
     solution |-> puzzle.solution,
     grid |-> puzzle.solution,
     sums |-> puzzle.sums,
     color_pattern |-> puzzle.color_pattern,
     colors |-> [green |-> puzzle.colors[1], orange |-> puzzle.colors[3],
                 yellow |-> puzzle.colors[2]],
     color_sums |-> [green |-> puzzle.color_sums[1], orange |-> puzzle.color_sums[2],
                     yellow |-> puzzle.color_sums[3]]]

puzzle_to_dict(puzzle, puzzle_id, seed) ==
    [id |-> puzzle_id,
     seed |-> seed,
     solution |-> puzzle.solution,
     grid |-> puzzle.solution,
     sums |-> puzzle.sums,
     color_pattern |-> puzzle.color_pattern,
     colors |-> [green |-> puzzle.colors[1], orange |-> puzzle.colors[2],
                 yellow |-> puzzle.colors[3]],
     color_sums |-> [green |-> puzzle.color_sums[1], orange |-> puzzle.color_sums[2],
                     yellow |-> puzzle.color_sums[3]]]

Called(process, num_puzzles, seed) ==
    [pc |-> "start", process |-> process, num_puzzles |-> num_puzzles, seed |-> seed,
     rng |-> [stream |-> EntropyStream(process)],
     puzzles |-> <<>>, attempts |-> 0, max_total_attempts |-> 0, puzzle_id |-> 0,
     puzzle |-> None, success |-> FALSE, tries |-> 0,
     candidate |-> None, solutions |-> <<>>,
     warning |-> None, file |-> None, summary |-> None, error |-> None]

\* lines 75-85 with the ids starting at the requested count
begin_id_from_count(r) ==
    [r EXCEPT !.rng = seed_generator(r),
              !.puzzles = <<>>,
              !.attempts = 0,
              !.max_total_attempts = r.num_puzzles * BudgetFactor,
              !.puzzle_id = r.num_puzzles,
              !.pc = "while"]

\* lines 75-85
begin(r) ==
    [r EXCEPT !.rng = seed_generator(r),
              !.puzzles = <<>>,
              !.attempts = 0,
              !.max_total_attempts = r.num_puzzles * BudgetFactor,
              !.puzzle_id = 1,
              !.pc = "while"]

\* line 86 stopping one puzzle short
loop_condition_one_short(r) ==
    Len(r.puzzles) + 1 < r.num_puzzles /\ r.attempts < r.max_total_attempts

\* line 86
loop_condition(r) ==
    Len(r.puzzles) < r.num_puzzles /\ r.attempts < r.max_total_attempts

\* lines 87-89 without attempts += 1
enter_loop_uncounted(r) ==
    [r EXCEPT !.tries = 0, !.candidate = None, !.solutions = <<>>, !.pc = "for"]

\* lines 87-89: the attempt is counted and generate_unique_puzzle is entered
enter_loop(r) ==
    [r EXCEPT !.attempts = r.attempts + 1,
              !.tries = 0,
              !.candidate = None,
              !.solutions = <<>>,
              !.pc = "for"]

\* lines 31-38 with a solver that pops the last corner sum off the list it
\* is given
synthesize_and_solve_popping(d) ==
    LET puzzle == generate_puzzle(d)
    IN  [puzzle |-> [puzzle EXCEPT !.sums = SubSeq(puzzle.sums, 1, 3)],
         solutions |-> solve_puzzle(puzzle.sums, puzzle.color_pattern,
                                    puzzle.colors, puzzle.color_sums)]

\* lines 31-38 on the random outcomes d
synthesize_and_solve(d) ==
    LET puzzle == generate_puzzle(d)
    IN  [puzzle |-> puzzle,
         solutions |-> solve_puzzle(puzzle.sums, puzzle.color_pattern,
                                    puzzle.colors, puzzle.color_sums)]

\* lines 31-38 on each of the random outcomes above, computed once and kept
\* as an explicit table (@@ builds one)
Verified == <<>> @@ [d \in RandomOutcomes |-> synthesize_and_solve(d)]

verify(d) == Verified[d]

\* line 40 with the test len(solutions) >= 1
is_unique_nonempty(solutions) == Len(solutions) >= 1

\* line 40
is_unique(solutions) == Len(solutions) = 1

\* lines 31-41 and 89-94: the candidate is returned and appended
accept(r, d) ==
    LET v == verify(d)
    IN  [r EXCEPT !.candidate = <<v.puzzle>>,
                  !.solutions = v.solutions,
                  !.puzzle = <<v.puzzle>>,
                  !.success = TRUE,
                  !.puzzles = Append(r.puzzles,
                                     puzzle_to_dict(v.puzzle, r.puzzle_id, r.seed)),
                  !.puzzle_id = r.puzzle_id + 1,
                  !.tries = 0,
                  !.pc = "while"]

\* reject using up the next id
reject_taking_id(r, d) ==
    LET v == verify(d)
    IN  [r EXCEPT !.candidate = <<v.puzzle>>,
                  !.solutions = v.solutions,
                  !.puzzle_id = r.puzzle_id + 1,
                  !.tries = r.tries + 1]

\* reject without the for loop advancing
reject_not_advancing(r, d) ==
    LET v == verify(d)
    IN  [r EXCEPT !.candidate = <<v.puzzle>>,
                  !.solutions = v.solutions]

\* lines 31-40 when the test fails: the for loop goes on
reject(r, d) ==
    LET v == verify(d)
    IN  [r EXCEPT !.candidate = <<v.puzzle>>,
                  !.solutions = v.solutions,
                  !.tries = r.tries + 1]

\* give_up using up the next id
give_up_taking_id(r) ==
    [r EXCEPT !.puzzle = None, !.success = FALSE, !.tries = 0,
              !.puzzle_id = r.puzzle_id + 1, !.pc = "while"]

\* give_up leaving puzzle and success as the previous call set them
give_up_stale(r) == [r EXCEPT !.tries = 0, !.pc = "while"]

\* line 43 and lines 89-91: (None, False) is returned, nothing is appended
give_up(r) ==
    [r EXCEPT !.puzzle = None, !.success = FALSE, !.tries = 0, !.pc = "while"]

\* lines 103-116 with total taken from the next id
dataset_of_next_id(puzzles) ==
    [name |-> "Suko", version |-> "1.0", total |-> Len(puzzles) + 1,
     description |-> "Suko puzzle dataset - uniquely solvable puzzles",
     format |-> [grid |-> "3x3 grid as flat list (row by row, 0-indexed)",
                 sums |-> "[top-left, top-right, bottom-left, bottom-right] corner sums",
                 color_pattern |-> "Position-to-color mapping (indices 0-8)",
                 colors |-> "Count of positions in each color (green, orange, yellow)",
                 color_sums |-> "Sum of values in each color group"],
     puzzles |-> puzzles]

\* lines 103-116
dataset_of(puzzles) ==
    [name |-> "Suko", version |-> "1.0", total |-> Len(puzzles),
     description |-> "Suko puzzle dataset - uniquely solvable puzzles",
     format |-> [grid |-> "3x3 grid as flat list (row by row, 0-indexed)",
                 sums |-> "[top-left, top-right, bottom-left, bottom-right] corner sums",
                 color_pattern |-> "Position-to-color mapping (indices 0-8)",
                 colors |-> "Count of positions in each color (green, orange, yellow)",
                 color_sums |-> "Sum of values in each color group"],
     puzzles |-> puzzles]

\* report with the rate computed as attempts/len(puzzles)
report_rate_per_puzzle(r) ==
    LET written == [r EXCEPT !.file = <<dataset_of(r.puzzles)>>]
        counts == [total_puzzles |-> Len(r.puzzles), total_attempts |-> r.attempts]
    IN  IF Len(r.puzzles) = 0
        THEN [written EXCEPT !.summary = <<counts>>,
                             !.error = <<"ZeroDivisionError">>,
                             !.pc = "raised"]
        ELSE [written EXCEPT !.summary = <<counts>>, !.pc = "done"]

\* lines 99-125: the warning of a partial result, the dataset written to the
\* file, then the statistics printed.  Lines 122-124 print before line 125
\* computes len(puzzles)/attempts*100, which raises when attempts = 0; the
\* rate is kept as the pair of its numerator and denominator.
report(r) ==
    LET written ==
            [r EXCEPT !.warning = IF Len(r.puzzles) < r.num_puzzles
                                  THEN <<[generated |-> Len(r.puzzles),
                                          requested |-> r.num_puzzles,
                                          attempts |-> r.attempts]>>
                                  ELSE None,
                      !.file = <<dataset_of(r.puzzles)>>]
        counts == [total_puzzles |-> Len(r.puzzles), total_attempts |-> r.attempts]
    IN  IF r.attempts = 0
        THEN [written EXCEPT !.summary = <<counts>>,
                             !.error = <<"ZeroDivisionError">>,
                             !.pc = "raised"]
        ELSE [written EXCEPT
                 !.summary = <<[total_puzzles |-> counts.total_puzzles,
                                total_attempts |-> counts.total_attempts,
                                success_rate |-> <<Len(r.puzzles) * 100, r.attempts>>]>>,
                 !.pc = "done"]

Idle == [pc |-> "idle"]

Terminated(r) == r.pc \in {"done", "raised"}

\* the step of a run from its control point, on random outcomes d
step(r, d) ==
    CASE r.pc = "start" -> begin(r)
      [] r.pc = "while" -> IF loop_condition(r) THEN enter_loop(r)
                           ELSE [r EXCEPT !.pc = "report"]
      [] r.pc = "for" -> IF r.tries >= MaxAttempts THEN give_up(r)
                         ELSE IF is_unique(verify(d).solutions) THEN accept(r, d)
                         ELSE reject(r, d)
      [] r.pc = "report" -> report(r)
      [] OTHER -> r

(***************************************************************************)
(* Spec: one call of generate_dataset.                                     *)
(***************************************************************************)
Seeds == {None} \cup { <<n>> : n \in SeedValues }

Init ==
    /\ \E n \in 0..MaxNum, seed \in Seeds : run = Called(1, n, seed)
    /\ rerun = Idle
    /\ lead = 0
    /\ synth = Idle

Begin ==
    /\ run.pc = "start"
    /\ run' = begin(run)
    /\ UNCHANGED <<rerun, lead, synth>>

EnterLoop ==
    /\ run.pc = "while"
    /\ loop_condition(run)
    /\ run' = enter_loop(run)
    /\ UNCHANGED <<rerun, lead, synth>>

ExitLoop ==
    /\ run.pc = "while"
    /\ ~ loop_condition(run)
    /\ run' = [run EXCEPT !.pc = "report"]
    /\ UNCHANGED <<rerun, lead, synth>>

Accept ==
    /\ run.pc = "for"
    /\ run.tries < MaxAttempts
    /\ \E d \in RandomOutcomes :
           /\ is_unique(verify(d).solutions)
           /\ run' = accept(run, d)
    /\ UNCHANGED <<rerun, lead, synth>>

Reject ==
    /\ run.pc = "for"
    /\ run.tries < MaxAttempts
    /\ \E d \in RandomOutcomes :
           /\ ~ is_unique(verify(d).solutions)
           /\ run' = reject(run, d)
    /\ UNCHANGED <<rerun, lead, synth>>

GiveUp ==
    /\ run.pc = "for"
    /\ run.tries >= MaxAttempts
    /\ run' = give_up(run)
    /\ UNCHANGED <<rerun, lead, synth>>

Report ==
    /\ run.pc = "report"
    /\ run' = report(run)
    /\ UNCHANGED <<rerun, lead, synth>>

Next == Begin \/ EnterLoop \/ ExitLoop \/ Accept \/ Reject \/ GiveUp \/ Report

Spec == Init /\ [][Next]_vars

\* the interpreter runs the call to its end
FairSpec == Spec /\ WF_vars(Next)

(***************************************************************************)
(* SpecPair: two calls with the same arguments, each in its own process,   *)
(* stepped together.  lead is how many more values the generator of the    *)
(* second call has given than that of the first.  Two generators on the    *)
(* same stream that have given the same number of values give the same     *)
(* values next; otherwise their values are unrelated.                      *)
(***************************************************************************)
InitPair ==
    /\ \E n \in 0..MaxNum, seed \in Seeds \ {None} :
           /\ run = Called(1, n, seed)
           /\ rerun = Called(2, n, seed)
    /\ lead = 0
    /\ synth = Idle

\* the step of r draws from the generator
Draws(r) == r.pc = "for" /\ r.tries < MaxAttempts

Taken(r, d) == IF Draws(r) THEN Consumed(d) ELSE 0

PairStep ==
    /\ ~ (Terminated(run) /\ Terminated(rerun))
    /\ \E d1 \in RandomOutcomes, d2 \in RandomOutcomes :
           /\ (run.rng = rerun.rng /\ lead = 0) => d1 = d2
           /\ run' = step(run, d1)
           /\ rerun' = step(rerun, d2)
           /\ lead' = lead + Taken(rerun, d2) - Taken(run, d1)
    /\ UNCHANGED synth

NextPair == PairStep

SpecPair == InitPair /\ [][NextPair]_vars

(***************************************************************************)
(* SpecPrefix: two calls with the same seed, the second asking for more    *)
(* puzzles than the first, stepped together as in SpecPair.  The lead of   *)
(* one generator over the other is followed while both calls run.  The     *)
(* streams followed are those on which at most MaxGivenUp calls of         *)
(* generate_unique_puzzle find a unique candidate after an earlier call    *)
(* was given up: once MaxGivenUp calls have been given up, the stream      *)
(* holds no unique candidate any more and the budget runs out.             *)
(***************************************************************************)
\* the calls of generate_unique_puzzle that have returned (None, False)
slots_given_up(r) ==
    IF r.pc = "for" THEN r.attempts - 1 - Len(r.puzzles)
    ELSE r.attempts - Len(r.puzzles)

\* d is what a stream followed gives the call r next
StreamFollowed(r, d) ==
    (Draws(r) /\ slots_given_up(r) >= MaxGivenUp) => ~ is_unique(verify(d).solutions)

InitPrefix ==
    /\ \E n \in 0..MaxNum, m \in 0..MaxNum, seed \in Seeds \ {None} :
           /\ n < m
           /\ run = Called(1, n, seed)
           /\ rerun = Called(2, m, seed)
    /\ lead = 0
    /\ synth = Idle

\* a call that does not draw in this step is given the value of the other
PrefixStep ==
    /\ ~ (Terminated(run) /\ Terminated(rerun))
    /\ \E d1 \in RandomOutcomes, d2 \in RandomOutcomes :
           /\ (run.rng = rerun.rng /\ lead = 0) => d1 = d2
           /\ (~ Draws(run) \/ ~ Draws(rerun)) => d1 = d2
           /\ StreamFollowed(run, d1)
           /\ StreamFollowed(rerun, d2)
           /\ run' = step(run, d1)
           /\ rerun' = step(rerun, d2)
           /\ lead' = IF Terminated(run) \/ Terminated(rerun) THEN lead
                      ELSE lead + Taken(rerun, d2) - Taken(run, d1)
    /\ UNCHANGED synth

NextPrefix == PrefixStep

SpecPrefix == InitPrefix /\ [][NextPrefix]_vars

(***************************************************************************)
(* SpecSynth: generate_puzzle step by step, one level of generate_colors   *)
(* per step, followed by one call of check_constraints on the constraint   *)
(* set made, or on one that differs from it in one sum.                    *)
(*                                                                         *)
(* synth.pc is "pattern1" (line 79), "colors" (line 81, inside             *)
(* generate_colors at recursion depth synth.depth), "pattern2" (line 82),  *)
(* "made" (generate_puzzle has returned) or "checked".  synth.drawn is the  *)
(* number of values the generator has given since generate_puzzle was      *)
(* entered: its position in its stream.                                    *)
(***************************************************************************)
\* the shuffles of SpecSynth: the two above and the one that swaps nothing
SynthShuffles == ShuffleDraws \cup { <<8, 7, 6, 5, 4, 3, 2, 1>> }

\* the grids check_constraints is called on: every pattern the shuffles give,
\* and a second grid with the sums of the third candidate above
ProbeGrids ==
    { generate_random_pattern(js) : js \in SynthShuffles }
        \cup { <<8, 9, 1, 3, 4, 5, 2, 6, 7>> }

\* a tuple of sums, and the tuples one more in one place
Near(sums) == {sums} \cup { [sums EXCEPT ![k] = @ + 1] : k \in DOMAIN sums }

InitSynth ==
    /\ synth = [pc |-> "pattern1", pattern1 |-> <<>>, sums |-> <<>>, depth |-> 0,
                colors |-> <<>>, pattern2 |-> <<>>, color_sums |-> <<>>,
                probe |-> None, verdict |-> FALSE, drawn |-> 0]
    /\ run = Idle
    /\ rerun = Idle
    /\ lead = 0

\* lines 79-80
SynthSolution ==
    /\ synth.pc = "pattern1"
    /\ \E js \in SynthShuffles :
           LET pattern1 == generate_random_pattern(js)
           IN  synth' = [synth EXCEPT !.pattern1 = pattern1,
                                      !.sums = calculate_sums(pattern1),
                                      !.drawn = synth.drawn + Len(js),
                                      !.pc = "colors"]
    /\ UNCHANGED <<run, rerun, lead>>

\* lines 26-32 when color3 is out of range: generate_colors calls itself
ColorsRecurse ==
    /\ synth.pc = "colors"
    /\ synth.depth < MaxDepth
    /\ \E color1 \in randint(2, 5), color2 \in randint(2, 5) :
           /\ ~ colors_accepted(color1, color2)
           /\ synth' = [synth EXCEPT !.depth = synth.depth + 1,
                                      !.drawn = synth.drawn + 2]
    /\ UNCHANGED <<run, rerun, lead>>

\* lines 26-30: the triple is returned through every level
ColorsReturn ==
    /\ synth.pc = "colors"
    /\ \E color1 \in randint(2, 5), color2 \in randint(2, 5) :
           /\ colors_accepted(color1, color2)
           /\ synth' = [synth EXCEPT
                           !.colors = <<color1, color2, color3_of(color1, color2)>>,
                           !.drawn = synth.drawn + 2,
                           !.pc = "pattern2"]
    /\ UNCHANGED <<run, rerun, lead>>

\* lines 82-91
SynthColorPattern ==
    /\ synth.pc = "pattern2"
    /\ \E js \in SynthShuffles :
           LET pattern2 == generate_random_pattern(js)
           IN  synth' = [synth EXCEPT
                           !.pattern2 = pattern2,
                           !.color_sums = calculate_color_sums(synth.pattern1, pattern2,
                                                               synth.colors),
                           !.drawn = synth.drawn + Len(js),
                           !.pc = "made"]
    /\ UNCHANGED <<run, rerun, lead>>

\* line 72 with a verifier that takes a value from the generator
verify_grid_drawing(st, grid, sums, color_sums) ==
    [st EXCEPT !.probe = <<[grid |-> grid, sums |-> sums, color_sums |-> color_sums]>>,
               !.verdict = check_constraints(grid, sums, st.pattern2, st.colors,
                                             color_sums),
               !.drawn = st.drawn + 1,
               !.pc = "checked"]

\* line 72: one iteration of solve_puzzle's loop, check_constraints called on
\* a grid; the generator is not touched
verify_grid(st, grid, sums, color_sums) ==
    [st EXCEPT !.probe = <<[grid |-> grid, sums |-> sums, color_sums |-> color_sums]>>,
               !.verdict = check_constraints(grid, sums, st.pattern2, st.colors,
                                             color_sums),
               !.pc = "checked"]

\* one call of check_constraints (line 72)
Probe ==
    /\ synth.pc = "made"
    /\ \E grid \in ProbeGrids, sums \in Near(synth.sums),
          color_sums \in Near(synth.color_sums) :
           synth' = verify_grid(synth, grid, sums, color_sums)
    /\ UNCHANGED <<run, rerun, lead>>

NextSynth == SynthSolution \/ ColorsRecurse \/ ColorsReturn \/ SynthColorPattern \/ Probe

SpecSynth == InitSynth /\ [][NextSynth]_vars

\* the generator is fair: a pair that line 29 accepts, possible at every
\* level of generate_colors, is drawn in the end
FairSynth == SpecSynth /\ WF_vars(ColorsReturn)

(***************************************************************************)
(* SpecCycles: one call of generate_dataset with the calls of solve_puzzle *)
(* counted.  synth.cycles is the number of times line 33 of                *)
(* generate_unique_puzzle has run since the call began: a step of the for  *)
(* loop of line 30 that draws a candidate is one such cycle.               *)
(***************************************************************************)
Counting(cycles) == [pc |-> "counting", cycles |-> cycles]

InitCycles ==
    /\ \E n \in 0..MaxCounted, seed \in Seeds : run = Called(1, n, seed)
    /\ rerun = Idle
    /\ lead = 0
    /\ synth = Counting(0)

CycleStep ==
    /\ ~ Terminated(run)
    /\ \E d \in RandomOutcomes :
           /\ run' = step(run, d)
           /\ synth' = Counting(synth.cycles + IF Draws(run) THEN 1 ELSE 0)
    /\ UNCHANGED <<rerun, lead>>

NextCycles == CycleStep

SpecCycles == InitCycles /\ [][NextCycles]_vars

(***************************************************************************)
(* SpecTest: one call of test_uniqueness (scripts/test_suko_uniqueness.py, *)
(* lines 93-143).  run is the record of the call:                          *)
(*   pc                  "start", "loop" (line 102), "summary" (line 137), *)
(*                       "done", "raised"                                  *)
(*   num_puzzles         the argument                                      *)
(*   i                   iterations of the for loop completed              *)
(*   unique_count, non_unique_count, unsolvable_count                      *)
(*   puzzle, solutions   the locals of the latest iteration                *)
(*   printed             the puzzle lines printed so far                   *)
(*   result              None, or <<the triple returned>>                  *)
(*   error               None, or <<the exception that ended the call>>    *)
(***************************************************************************)
TestCalled(num_puzzles) ==
    [pc |-> "start", num_puzzles |-> num_puzzles, i |-> 0,
     unique_count |-> 0, non_unique_count |-> 0, unsolvable_count |-> 0,
     puzzle |-> None, solutions |-> <<>>, printed |-> <<>>,
     result |-> None, error |-> None]

\* lines 95-97
test_begin(r) ==
    [r EXCEPT !.unique_count = 0, !.non_unique_count = 0, !.unsolvable_count = 0,
              !.pc = "loop"]

\* lines 114-129 with the solution compared by identity: the list solve_puzzle
\* built is never the list generate_puzzle built
classify_by_identity(puzzle, solutions) ==
    LET num_solutions == Len(solutions)
    IN  IF num_solutions = 0 THEN "UNSOLVABLE"
        ELSE IF num_solutions = 1 THEN "UNIQUE (different solution)"
        ELSE "NON-UNIQUE"

\* lines 112-129: the branch taken and the line it prints
classify(puzzle, solutions) ==
    LET num_solutions == Len(solutions)
    IN  IF num_solutions = 0 THEN "UNSOLVABLE"
        ELSE IF num_solutions = 1
             THEN IF PyIndex(solutions, 0) = puzzle.solution
                  THEN "UNIQUE (matches generated solution)"
                  ELSE "UNIQUE (different solution)"
        ELSE "NON-UNIQUE"

\* lines 102-135 with the non-unique branch counted as unique as well
test_iteration_counting_twice(r, d) ==
    LET v == verify(d)
        branch == classify(v.puzzle, v.solutions)
    IN  [r EXCEPT
            !.puzzle = <<v.puzzle>>,
            !.solutions = v.solutions,
            !.unsolvable_count = IF branch = "UNSOLVABLE" THEN @ + 1 ELSE @,
            !.unique_count = IF branch # "UNSOLVABLE" THEN @ + 1 ELSE @,
            !.non_unique_count = IF branch = "NON-UNIQUE" THEN @ + 1 ELSE @,
            !.printed = Append(@, [number |-> r.i + 1, branch |-> branch,
                                   sums |-> v.puzzle.sums, colors |-> v.puzzle.colors,
                                   color_sums |-> v.puzzle.color_sums]),
            !.i = r.i + 1]

\* lines 102-135: one iteration of the for loop on the random outcomes d
test_iteration(r, d) ==
    LET v == verify(d)
        branch == classify(v.puzzle, v.solutions)
    IN  [r EXCEPT
            !.puzzle = <<v.puzzle>>,
            !.solutions = v.solutions,
            !.unsolvable_count = IF branch = "UNSOLVABLE" THEN @ + 1 ELSE @,
            !.unique_count = IF branch \in {"UNIQUE (matches generated solution)",
                                            "UNIQUE (different solution)"}
                             THEN @ + 1 ELSE @,
            !.non_unique_count = IF branch = "NON-UNIQUE" THEN @ + 1 ELSE @,
            !.printed = Append(@, [number |-> r.i + 1, branch |-> branch,
                                   sums |-> v.puzzle.sums, colors |-> v.puzzle.colors,
                                   color_sums |-> v.puzzle.color_sums]),
            !.i = r.i + 1]

\* lines 137-143: the percentages of lines 139-141 divide by num_puzzles, which
\* raises when it is 0; otherwise the triple is returned
test_summary(r) ==
    IF r.num_puzzles = 0
    THEN [r EXCEPT !.error = <<"ZeroDivisionError">>, !.pc = "raised"]
    ELSE [r EXCEPT !.result = <<<<r.unique_count, r.non_unique_count,
                                  r.unsolvable_count>>>>,
                   !.pc = "done"]

InitTest ==
    /\ \E n \in 0..MaxTests : run = TestCalled(n)
    /\ rerun = Idle
    /\ lead = 0
    /\ synth = Idle

TestBegin ==
    /\ run.pc = "start"
    /\ run' = test_begin(run)
    /\ UNCHANGED <<rerun, lead, synth>>

TestIteration ==
    /\ run.pc = "loop"
    /\ run.i < run.num_puzzles
    /\ \E d \in RandomOutcomes : run' = test_iteration(run, d)
    /\ UNCHANGED <<rerun, lead, synth>>

TestLoopEnd ==
    /\ run.pc = "loop"
    /\ run.i >= run.num_puzzles
    /\ run' = [run EXCEPT !.pc = "summary"]
    /\ UNCHANGED <<rerun, lead, synth>>

TestSummary ==
    /\ run.pc = "summary"
    /\ run' = test_summary(run)
    /\ UNCHANGED <<rerun, lead, synth>>

NextTest == TestBegin \/ TestIteration \/ TestLoopEnd \/ TestSummary

SpecTest == InitTest /\ [][NextTest]_vars

(***************************************************************************)
(* SpecDeal: two calls of deal_freecell (generate_freecell_puzzles.py),    *)
(* one after the other.  run and rerun are the records of the calls:       *)
(*   pc        "start", "deal" (the loops of lines 44-48), "done"          *)
(*   seed      the argument                                                *)
(*   deck      the shuffled deck                                           *)
(*   columns   the 8 columns being filled                                  *)
(*   card_idx, row, col   the locals of the loops                          *)
(*   result    None, or <<the columns returned>>                           *)
(* synth holds what random.Random(seed).shuffle does for each seed: the    *)
(* generator is created afresh from the seed on every call (line 29), so   *)
(* its permutation depends on the seed alone.                              *)
(***************************************************************************)
SUITS == <<"H", "D", "C", "S">>

RANKS == <<"A", "2", "3", "4", "5", "6", "7", "8", "9", "T", "J", "Q", "K">>

\* lines 18-24
create_deck ==
    [k \in 1..(Len(SUITS) * Len(RANKS)) |->
        PyIndex(RANKS, (k - 1) % Len(RANKS)) \o PyIndex(SUITS, (k - 1) \div Len(RANKS))]

\* the permutations rng.shuffle may apply, each given as <<stride, offset>>:
\* position i of the shuffled deck receives the card at i * stride + offset
Shufflings == {<<1, 0>>, <<51, 51>>, <<5, 3>>}

rng_shuffle(deck, shuffling) ==
    [i \in 1..Len(deck) |->
        PyIndex(deck, ((i - 1) * shuffling[1] + shuffling[2]) % Len(deck))]

DealSeeds == 0..MaxDealSeed

\* random.Random: the shuffling each seed yields
Generators == [DealSeeds -> Shufflings]

\* lines 26-31
shuffle_deck(seed, Random) == rng_shuffle(create_deck, Random[seed])

DealCalled(seed) ==
    [pc |-> "start", seed |-> seed, deck |-> <<>>, columns |-> <<>>,
     card_idx |-> 0, row |-> 0, col |-> 0, result |-> None]

\* lines 35-43
deal_begin(r, Random) ==
    [r EXCEPT !.deck = shuffle_deck(r.seed, Random),
              !.columns = [c \in 1..8 |-> <<>>],
              !.card_idx = 0, !.row = 0, !.col = 0,
              !.pc = "deal"]

\* lines 44-48 with the loops exchanged: column by column
deal_card_by_column(r) ==
    LET dealt == r.card_idx < Len(r.deck)
        at == r.row + 1
    IN  [r EXCEPT
            !.columns = IF dealt
                        THEN [@ EXCEPT ![at] = Append(@, PyIndex(r.deck, r.card_idx))]
                        ELSE @,
            !.card_idx = IF dealt THEN @ + 1 ELSE @,
            !.col = IF r.col + 1 < 8 THEN r.col + 1 ELSE 0,
            !.row = IF r.col + 1 < 8 THEN r.row ELSE r.row + 1]

\* lines 44-48: one iteration of the inner loop
deal_card(r) ==
    LET dealt == r.card_idx < Len(r.deck)
        at == r.col + 1
    IN  [r EXCEPT
            !.columns = IF dealt
                        THEN [@ EXCEPT ![at] = Append(@, PyIndex(r.deck, r.card_idx))]
                        ELSE @,
            !.card_idx = IF dealt THEN @ + 1 ELSE @,
            !.col = IF r.col + 1 < 8 THEN r.col + 1 ELSE 0,
            !.row = IF r.col + 1 < 8 THEN r.row ELSE r.row + 1]

\* line 50
deal_return(r) == [r EXCEPT !.result = <<r.columns>>, !.pc = "done"]

\* one step of deal_freecell
deal_step(r, Random) ==
    CASE r.pc = "start" -> deal_begin(r, Random)
      [] r.pc = "deal" -> IF r.row < 7 THEN deal_card(r) ELSE deal_return(r)
      [] OTHER -> r

InitDeal ==
    /\ \E seed \in DealSeeds, again \in DealSeeds, Random \in Generators :
           /\ run = DealCalled(seed)
           /\ rerun = DealCalled(again)
           /\ synth = [pc |-> "random", Random |-> Random]
    /\ lead = 0

DealFirst ==
    /\ run.pc # "done"
    /\ run' = deal_step(run, synth.Random)
    /\ UNCHANGED <<rerun, lead, synth>>

DealAgain ==
    /\ run.pc = "done"
    /\ rerun.pc # "done"
    /\ rerun' = deal_step(rerun, synth.Random)
    /\ UNCHANGED <<run, lead, synth>>

NextDeal == DealFirst \/ DealAgain

SpecDeal == InitDeal /\ [][NextDeal]_vars

(***************************************************************************)
(* Properties.                                                             *)
(***************************************************************************)
\* the colors and color_sums of a dataset record, back as tuples
ColorsOf(record) == <<record.colors.green, record.colors.orange, record.colors.yellow>>
ColorSumsOf(record) ==
    <<record.color_sums.green, record.color_sums.orange, record.color_sums.yellow>>

\* C1: every puzzle record appended to the dataset has exactly one satisfying
\* grid: solve_puzzle on its sums, color_pattern, colors and color_sums
\* returns a list of length 1 whose element is the stored solution.
C1_AppendedPuzzlesUnique ==
    \A k \in 1..Len(run.puzzles) :
        LET record == run.puzzles[k]
            solutions == solve_puzzle(record.sums, record.color_pattern,
                                      ColorsOf(record), ColorSumsOf(record))
        IN  Len(solutions) = 1 /\ solutions[1] = record.solution

\* two different puzzles have been appended
C1_Witness ==
    /\ Len(run.puzzles) = 2
    /\ run.puzzles[1].solution # run.puzzles[2].solution

\* C2: solve_puzzle goes through all 362880 orderings of 1..9 and returns
\* the ones check_constraints accepts, each once: every grid returned is an
\* ordering that passes, no grid is returned twice, every probe grid that
\* passes is returned, and the list is [g] only if no other probe grid passes.
C2_SolveExhaustive ==
    run.candidate # None =>
        LET puzzle == run.candidate[1]
            solutions == run.solutions
            passes(grid) == check_constraints(grid, puzzle.sums, puzzle.color_pattern,
                                              puzzle.colors, puzzle.color_sums)
        IN  /\ Cardinality(AllOrderings) = 362880
            /\ \A i \in 1..Len(solutions) :
                   solutions[i] \in AllOrderings /\ passes(solutions[i])
            /\ \A i \in 1..Len(solutions), j \in 1..Len(solutions) :
                   i # j => solutions[i] # solutions[j]
            /\ \A grid \in ProbeGrids :
                   passes(grid) => \E i \in 1..Len(solutions) : solutions[i] = grid
            /\ \A grid \in ProbeGrids :
                   solutions = <<grid>> =>
                       \A other \in ProbeGrids \ {grid} : ~ passes(other)

\* solve_puzzle has returned two grids, the generated one last
C2_Witness ==
    /\ run.candidate # None
    /\ Len(run.solutions) = 2
    /\ run.solutions[2] = run.candidate[1].solution

\* C3: the grid generate_puzzle returns satisfies the constraint set it
\* returns with it.
C3_SynthesizedGridSatisfies ==
    synth.pc \in {"made", "checked"} =>
        check_constraints(synth.pattern1, synth.sums, synth.pattern2,
                          synth.colors, synth.color_sums)

\* a puzzle made after a rejected colour draw, with two different patterns
C3_Witness ==
    /\ synth.pc = "made"
    /\ synth.depth > 0
    /\ synth.pattern1 # synth.pattern2

\* C4: two calls with the same seed (not None) and the same num_puzzles
\* write the same dataset: the same puzzles in the same order, ids included.
C4_SameSeedSameDataset ==
    (/\ Terminated(run) /\ Terminated(rerun)
     /\ run.seed # None /\ run.seed = rerun.seed
     /\ run.num_puzzles = rerun.num_puzzles)
        => /\ run.puzzles = rerun.puzzles
           /\ run.file = rerun.file

\* both calls have ended with two different puzzles
C4_Witness ==
    /\ run.pc = "done" /\ rerun.pc = "done"
    /\ Len(rerun.puzzles) = 2
    /\ rerun.puzzles[1].solution # rerun.puzzles[2].solution

\* C5: a call for 0 puzzles ends without an error, with an empty dataset and
\* no attempt counted.
C5_ZeroPuzzlesNoError ==
    (run.num_puzzles = 0 /\ Terminated(run))
        => /\ run.pc = "done"
           /\ run.error = None
           /\ run.attempts = 0
           /\ run.file = <<dataset_of(<<>>)>>

\* C6: for num_puzzles >= 1, once the budget is used up with fewer than
\* num_puzzles accepted, the call raises nothing and ends with a dataset of
\* fewer puzzles than requested.
C6_BudgetExhaustionNotFatal ==
    (/\ run.pc \in {"report", "done", "raised"}
     /\ run.num_puzzles >= 1
     /\ run.attempts = BudgetFactor * run.num_puzzles
     /\ Len(run.puzzles) < run.num_puzzles)
        => /\ run.pc # "raised"
           /\ run.error = None
           /\ run.pc = "done" =>
                  /\ run.file # None
                  /\ run.file[1].total = Len(run.puzzles)
                  /\ run.file[1].total < run.num_puzzles

\* the call has ended normally on an exhausted budget
C6_Witness ==
    /\ run.pc = "done"
    /\ run.num_puzzles >= 1
    /\ run.attempts = BudgetFactor * run.num_puzzles
    /\ run.file # None
    /\ run.file[1].total < run.num_puzzles

\* the loop of generate_dataset is over when either holds
C7_LoopOver(r) ==
    Len(r.puzzles) = r.num_puzzles \/ r.attempts = BudgetFactor * r.num_puzzles

\* C7: the loop of generate_dataset terminates: attempts goes up by exactly
\* 1 per iteration and by nothing else, never exceeds 200 * num_puzzles, the
\* loop is left as soon as len(puzzles) = num_puzzles or attempts = 200 *
\* num_puzzles and not before, and the call ends.
C7_LoopTerminates ==
    /\ [](run.pc # "start" => run.attempts <= BudgetFactor * run.num_puzzles)
    /\ [][/\ (run.pc = "while" /\ ~ C7_LoopOver(run))
                 => run'.pc = "for" /\ run'.attempts = run.attempts + 1
          /\ (run.pc = "while" /\ C7_LoopOver(run))
                 => run'.pc = "report" /\ run'.attempts = run.attempts
          /\ run.pc \notin {"start", "while"} => run'.attempts = run.attempts]_vars
    /\ <>Terminated(run)

\* the loop is left on the last attempt of the budget
C7_Witness ==
    /\ run.pc = "report"
    /\ run.num_puzzles >= 1
    /\ run.attempts = BudgetFactor * run.num_puzzles

\* C8: the triple generate_colors returns has each size in 2..5 and sums
\* to 9.
C8_ColorsInRange ==
    synth.pc \in {"pattern2", "made", "checked"} =>
        /\ Len(synth.colors) = 3
        /\ \A k \in 1..3 : synth.colors[k] \in 2..5
        /\ synth.colors[1] + synth.colors[2] + synth.colors[3] = 9

\* generate_colors has returned after recursing as deep as the model follows
C8_Witness ==
    /\ synth.pc = "pattern2"
    /\ synth.depth = MaxDepth

\* C9: every solution grid and colour pattern synthesized, every one stored
\* in the dataset, and every grid solve_puzzle returns is a permutation of
\* 1..9.
C9_GridsArePermutations ==
    /\ run.candidate # None =>
           /\ IsPermutation(run.candidate[1].solution)
           /\ IsPermutation(run.candidate[1].color_pattern)
    /\ \A i \in 1..Len(run.solutions) : IsPermutation(run.solutions[i])
    /\ \A k \in 1..Len(run.puzzles) :
           /\ IsPermutation(run.puzzles[k].solution)
           /\ IsPermutation(run.puzzles[k].color_pattern)

\* a candidate with two solutions has been verified after one was appended
C9_Witness ==
    /\ run.candidate # None
    /\ Len(run.solutions) = 2
    /\ Len(run.puzzles) = 1

\* C10: check_constraints(g, s, p, c, cs) is true exactly when
\* calculate_sums(g) = s and calculate_color_sums(g, p, c) = cs.
C10_CheckAgreesWithDerivation ==
    synth.pc = "checked" =>
        LET probe == synth.probe[1]
        IN  synth.verdict <=>
                /\ calculate_sums(probe.grid) = probe.sums
                /\ calculate_color_sums(probe.grid, synth.pattern2, synth.colors)
                       = probe.color_sums

\* check_constraints has accepted a grid other than the generated one
C10_Witness ==
    /\ synth.pc = "checked"
    /\ synth.verdict
    /\ synth.probe[1].grid # synth.pattern1

\* the grid with every cell holding its own position, and its corner sums
C11_Grid == <<1, 2, 3, 4, 5, 6, 7, 8, 9>>
C11_Sums == <<12, 16, 24, 28>>

\* C11: calculate_sums returns the sums of the cells at {0,1,3,4}, {1,2,4,5},
\* {3,4,6,7}, {4,5,7,8} in the order top-left, top-right, bottom-left,
\* bottom-right, the centre cell in all four; grid [1..9] gives
\* [12,16,24,28], and check_constraints accepts that grid against those sums
\* with the colour sums derived from it.
C11_CornerSums ==
    /\ synth.pc \in {"colors", "pattern2", "made", "checked"} =>
           LET g == synth.pattern1
           IN  /\ synth.sums = <<g[1] + g[2] + g[4] + g[5], g[2] + g[3] + g[5] + g[6],
                                 g[4] + g[5] + g[7] + g[8], g[5] + g[6] + g[8] + g[9]>>
               /\ g = C11_Grid => synth.sums = C11_Sums
    /\ synth.pc = "checked" =>
           LET probe == synth.probe[1]
           IN  (/\ probe.grid = C11_Grid
                /\ probe.sums = C11_Sums
                /\ probe.color_sums = calculate_color_sums(C11_Grid, synth.pattern2,
                                                           synth.colors))
                   => synth.verdict

\* check_constraints has accepted grid [1..9] against [12,16,24,28]
C11_Witness ==
    /\ synth.pc = "checked"
    /\ synth.probe[1].grid = C11_Grid
    /\ synth.probe[1].sums = C11_Sums
    /\ synth.verdict

\* C12: a candidate is accepted iff the solver returns exactly one grid for
\* it.  Each cycle of generate_unique_puzzle synthesizes and verifies one
\* candidate; with one solution it is returned at once with True (so it is
\* the first such candidate of the call) and appended under the next id;
\* with any other number of solutions nothing is raised and the puzzle list
\* and the next id stay as they were.  The puzzle list changes in no other
\* way.
C12_AcceptIffUnique ==
    [][/\ (run.pc = "for" /\ run.tries < MaxAttempts) =>
              /\ run'.candidate # None
              /\ run'.error = None
              /\ IF Len(run'.solutions) = 1
                 THEN /\ run'.pc = "while"
                      /\ run'.success
                      /\ run'.puzzle = run'.candidate
                      /\ run'.puzzles =
                             Append(run.puzzles,
                                    puzzle_to_dict(run'.candidate[1], run.puzzle_id,
                                                   run.seed))
                      /\ run'.puzzle_id = run.puzzle_id + 1
                 ELSE /\ run'.pc = "for"
                      /\ run'.puzzles = run.puzzles
                      /\ run'.puzzle_id = run.puzzle_id
       /\ (run.pc # "start" /\ run'.puzzles # run.puzzles) =>
              /\ run.pc = "for"
              /\ Len(run'.solutions) = 1]_vars

\* a candidate was accepted in the second outer attempt, after the first
\* one had only candidates with two solutions
C12_Witness ==
    /\ run.pc = "while"
    /\ run.success
    /\ Len(run.solutions) = 1
    /\ Len(run.puzzles) = 1
    /\ run.attempts = 2

\* C13: within one outer attempt at most 50 synthesize-then-verify cycles
\* run: a cycle runs only while fewer than 50 have failed, the cycles stop at
\* the first accepted candidate, and after 50 rejections the call returns
\* (None, False) without a further cycle and without appending; the loop
\* then goes on to the next outer attempt, which starts with no candidate.
C13_InnerCap ==
    /\ [](run.pc \in {"while", "for", "report", "done", "raised"}
              => run.tries <= MaxAttempts)
    /\ [][/\ (run.pc = "for" /\ run.tries < MaxAttempts) =>
                 IF Len(run'.solutions) = 1
                 THEN run'.pc = "while" /\ run'.tries = 0
                 ELSE run'.pc = "for" /\ run'.tries = run.tries + 1
          /\ (run.pc = "for" /\ run.tries >= MaxAttempts) =>
                 /\ run.tries = MaxAttempts
                 /\ run'.pc = "while"
                 /\ run'.puzzle = None
                 /\ ~ run'.success
                 /\ run'.candidate = run.candidate
                 /\ run'.puzzles = run.puzzles
                 /\ run'.puzzle_id = run.puzzle_id
          /\ (run.pc = "while" /\ run'.pc = "for") =>
                 /\ run'.tries = 0
                 /\ run'.candidate = None
                 /\ run'.attempts = run.attempts + 1
          /\ (run.pc = "while" /\ ~ run.success /\ run.attempts >= 1
                 /\ Len(run.puzzles) < run.num_puzzles
                 /\ run.attempts < BudgetFactor * run.num_puzzles) =>
                 run'.pc = "for"]_vars

\* the second outer attempt was given up after a puzzle had been accepted in
\* the first
C13_Witness ==
    /\ run.pc = "while"
    /\ run.attempts = 2
    /\ Len(run.puzzles) = 1
    /\ ~ run.success
    /\ run.puzzle = None
    /\ run.candidate # None

\* C14: every rejected candidate is counted in the total attempts, so the
\* total is never below the puzzles accepted so far plus the candidates
\* rejected so far in the current generate_unique_puzzle call.
C14_RejectedCounted ==
    run.pc \in {"while", "for", "report", "done", "raised"} =>
        run.attempts >= Len(run.puzzles) + run.tries

\* the keys of a dataset that hold a count: every key but the descriptive
\* ones and the puzzle list
C15_CountKeys(dataset) ==
    DOMAIN dataset \ {"name", "version", "description", "format", "puzzles"}

\* C15: the dataset written carries the count requested, the count produced
\* and the total attempts, each under a key of its own.
C15_DatasetCarriesMetadata ==
    run.file # None =>
        LET dataset == run.file[1]
        IN  \E requested, produced, attempts \in C15_CountKeys(dataset) :
                /\ requested # produced
                /\ requested # attempts
                /\ produced # attempts
                /\ dataset[requested] = run.num_puzzles
                /\ dataset[produced] = Len(run.puzzles)
                /\ dataset[attempts] = run.attempts

\* C16: for a colour pattern that is a permutation of 1..9 and a valid
\* triple of sizes, green takes the first k1 entries, orange the next k2 and
\* yellow the remaining k3: every grid position 0..8 is in exactly one group,
\* and the three colour sums of a permutation grid add up to 45.
C16_ColorGroupsPartition ==
    synth.pc \in {"made", "checked"} =>
        LET groups == color_positions(synth.pattern2, synth.colors)
            all == groups[1] \o groups[2] \o groups[3]
            total(color_sums) == color_sums[1] + color_sums[2] + color_sums[3]
        IN  /\ \A k \in 1..3 : Len(groups[k]) = synth.colors[k]
            /\ Len(all) = 9
            /\ \A position \in 0..8 :
                   Cardinality({ k \in 1..Len(all) : all[k] = position }) = 1
            /\ total(synth.color_sums) = 45
            /\ synth.pc = "checked" =>
                   total(calculate_color_sums(synth.probe[1].grid, synth.pattern2,
                                              synth.colors)) = 45

\* a puzzle with five green positions and a shuffled colour pattern
C16_Witness ==
    /\ synth.pc = "made"
    /\ synth.colors = <<5, 2, 2>>
    /\ synth.pattern2 # C11_Grid

\* C17: the verifier does not touch the random stream.  The generator moves
\* on only in generate_random_pattern (8 values per shuffle) and in
\* generate_colors (2 per level); a call of check_constraints inside
\* solve_puzzle leaves its position where the synthesizer left it, so after
\* a synthesize-and-verify cycle the position is the number of values the
\* synthesizer drew.
C17_VerifierLeavesGenerator ==
    /\ [](synth.pc \in {"made", "checked"} =>
              synth.drawn = 8 + 2 * (synth.depth + 1) + 8)
    /\ [][/\ synth.pc = "made" => synth'.drawn = synth.drawn
          /\ synth'.drawn # synth.drawn =>
                 synth.pc \in {"pattern1", "colors", "pattern2"}]_vars

\* a grid was verified after generate_colors had recursed once
C17_Witness ==
    /\ synth.pc = "checked"
    /\ synth.depth = 1
    /\ synth.drawn = 20

\* C18: once generate_dataset has left the generation loop, the number of
\* accepted puzzles is the requested count or the attempt counter is at the
\* budget of 200 * num_puzzles; a dataset with fewer puzzles than requested
\* is written only with the budget used up.
C18_FinalizedOnTargetOrBudget ==
    run.pc \in {"report", "done", "raised"} =>
        /\ \/ Len(run.puzzles) = run.num_puzzles
           \/ run.attempts = BudgetFactor * run.num_puzzles
        /\ run.file # None =>
               /\ run.file[1].puzzles = run.puzzles
               /\ run.file[1].total < run.num_puzzles =>
                      run.attempts = BudgetFactor * run.num_puzzles

\* the dataset was written with both requested puzzles, budget remaining and
\* one slot given up on the way
C18_Witness ==
    /\ run.pc = "done"
    /\ run.num_puzzles = 2
    /\ run.file # None
    /\ run.file[1].total = 2
    /\ run.attempts = 3

\* the pairs (color1, color2) generate_colors can draw
C19_Pairs == randint(2, 5) \X randint(2, 5)

\* C19: generate_colors returns in the end under fair draws: 10 of the 16
\* pairs it can draw are accepted, those with 4 <= color1 + color2 <= 7;
\* each rejected pair adds one nested call, so the depth of the recursion is
\* the number of pairs rejected so far, and a level returns only on an
\* accepted pair, without adding a call.  (The code sets no bound on the
\* depth: the model follows it to MaxDepth.)
C19_ColorsReturnUnderFairDraws ==
    /\ [](/\ Cardinality(C19_Pairs) = 16
          /\ Cardinality({ pair \in C19_Pairs : colors_accepted(pair[1], pair[2]) }) = 10
          /\ \A pair \in C19_Pairs :
                 colors_accepted(pair[1], pair[2])
                     <=> (4 <= pair[1] + pair[2] /\ pair[1] + pair[2] <= 7))
    /\ [](synth.pc = "colors" => synth.drawn = 8 + 2 * synth.depth)
    /\ [][synth.pc = "colors" =>
              \/ /\ synth'.pc = "colors"
                 /\ synth'.depth = synth.depth + 1
                 /\ synth'.drawn = synth.drawn + 2
              \/ /\ synth'.pc = "pattern2"
                 /\ synth'.depth = synth.depth
                 /\ synth'.drawn = synth.drawn + 2
                 /\ 4 <= synth'.colors[1] + synth'.colors[2]
                 /\ synth'.colors[1] + synth'.colors[2] <= 7]_vars
    /\ (synth.pc = "colors" ~> synth.pc = "pattern2")

\* generate_colors is nested as deep as the model follows it and has not
\* returned yet
C19_Witness ==
    /\ synth.pc = "colors"
    /\ synth.depth = MaxDepth
    /\ synth.drawn = 8 + 2 * MaxDepth

\* the puzzles generate_puzzle returns on the random outcomes followed
C20_Generated == { generate_puzzle(d) : d \in RandomOutcomes }

\* C20: verification does not alter the candidate.  The candidate that was
\* verified is a puzzle exactly as generate_puzzle returned it, the
\* solutions are those of its constraint set, the puzzle returned to
\* generate_dataset is that candidate, and every record stored has the
\* solution, sums, color_pattern, colors and color_sums of a puzzle as
\* generate_puzzle returned it.
C20_VerificationKeepsCandidate ==
    /\ run.candidate # None =>
           LET puzzle == run.candidate[1]
           IN  /\ puzzle \in C20_Generated
               /\ run.solutions = solve_puzzle(puzzle.sums, puzzle.color_pattern,
                                               puzzle.colors, puzzle.color_sums)
    /\ \A k \in 1..Len(run.puzzles) :
           \E puzzle \in C20_Generated :
               run.puzzles[k] = puzzle_to_dict(puzzle, k, run.seed)
    /\ (run.pc = "while" /\ run.success) =>
           /\ run.puzzle = run.candidate
           /\ run.puzzles[Len(run.puzzles)]
                  = puzzle_to_dict(run.candidate[1], Len(run.puzzles), run.seed)

\* two verified candidates with different colour patterns have been stored
C20_Witness ==
    /\ run.pc = "while"
    /\ run.success
    /\ Len(run.puzzles) = 2
    /\ run.puzzles[2].color_pattern = run.candidate[1].color_pattern
    /\ run.puzzles[1].color_pattern # run.puzzles[2].color_pattern

\* the puzzle read back from a dataset record
C21_Recovered(record) ==
    [solution |-> record.solution,
     sums |-> record.sums,
     color_pattern |-> record.color_pattern,
     colors |-> <<record.colors.green, record.colors.orange, record.colors.yellow>>,
     color_sums |-> <<record.color_sums.green, record.color_sums.orange,
                      record.color_sums.yellow>>]

\* C21: puzzle_to_dict preserves the puzzle.  In the record made from the
\* puzzle just accepted, solution and grid are the puzzle's solution, sums
\* and color_pattern are the puzzle's, in the same order, colors and
\* color_sums hold index 0 under green, 1 under orange and 2 under yellow,
\* and the puzzle read back from the record is the puzzle that went in.
C21_RecordPreservesPuzzle ==
    (run.pc = "while" /\ run.success) =>
        LET puzzle == run.puzzle[1]
            record == run.puzzles[Len(run.puzzles)]
        IN  /\ record.solution = puzzle.solution
            /\ record.grid = puzzle.solution
            /\ record.sums = puzzle.sums
            /\ record.sums = calculate_sums(record.grid)
            /\ record.color_pattern = puzzle.color_pattern
            /\ record.colors.green = puzzle.colors[1]
            /\ record.colors.orange = puzzle.colors[2]
            /\ record.colors.yellow = puzzle.colors[3]
            /\ record.color_sums.green = puzzle.color_sums[1]
            /\ record.color_sums.orange = puzzle.color_sums[2]
            /\ record.color_sums.yellow = puzzle.color_sums[3]
            /\ C21_Recovered(record) = puzzle

\* the first outer attempt of a seeded call has stored its puzzle
C21_Witness ==
    /\ run.pc = "while"
    /\ run.success
    /\ run.seed # None
    /\ run.attempts = 1
    /\ run.puzzles[1].colors.orange # run.puzzles[1].colors.yellow

\* C22: the dataset holds no puzzle twice: no two of its records have the
\* same solution with the same sums, color_pattern, colors and color_sums.
C22_NoDuplicatePuzzle ==
    \A i \in 1..Len(run.puzzles), j \in 1..Len(run.puzzles) :
        i # j =>
            LET a == run.puzzles[i]
                b == run.puzzles[j]
            IN  \/ a.solution # b.solution
                \/ a.sums # b.sums
                \/ a.color_pattern # b.color_pattern
                \/ a.colors # b.colors
                \/ a.color_sums # b.color_sums

\* C23: prefix stability under a fixed seed.  When two calls with the same
\* seed, the first asking for fewer puzzles than the second, have both
\* ended, the puzzles of the first are the first puzzles of the second,
\* element for element, ids included, in the lists and in the files written.
C23_PrefixStable ==
    (/\ Terminated(run) /\ Terminated(rerun)
     /\ run.seed # None /\ run.seed = rerun.seed
     /\ run.num_puzzles < rerun.num_puzzles)
        => /\ Len(run.puzzles) <= Len(rerun.puzzles)
           /\ SubSeq(rerun.puzzles, 1, Len(run.puzzles)) = run.puzzles
           /\ \A k \in 1..Len(run.puzzles) :
                  /\ rerun.puzzles[k].id = run.puzzles[k].id
                  /\ rerun.file[1].puzzles[k] = run.file[1].puzzles[k]

\* the call for one puzzle and the call for two have both ended, the second
\* with two different puzzles
C23_Witness ==
    /\ run.pc = "done" /\ rerun.pc = "done"
    /\ run.num_puzzles = 1
    /\ Len(run.puzzles) = 1
    /\ Len(rerun.puzzles) = 2
    /\ rerun.puzzles[2].solution # run.puzzles[1].solution

\* C24: in every state of the generate_dataset loop the ids are consecutive
\* in the order of acceptance: the k-th puzzle of the list has id k, and the
\* next id to assign is len(puzzles) + 1, whatever number of outer attempts
\* were given up.
C24_IdsConsecutive ==
    run.pc \in {"while", "for", "report", "done", "raised"} =>
        /\ \A k \in 1..Len(run.puzzles) : run.puzzles[k].id = k
        /\ run.puzzle_id = Len(run.puzzles) + 1

\* the third outer attempt is running with one puzzle stored: an earlier
\* attempt was given up
C24_Witness ==
    /\ run.pc = "for"
    /\ run.attempts = 3
    /\ run.tries = 1
    /\ Len(run.puzzles) = 1
    /\ run.puzzle_id = 2

\* C25: in every state of the generate_dataset loop len(puzzles) is at most
\* attempts and at most num_puzzles; the success rate printed, len(puzzles)
\* * 100 over attempts, is never above 100, and the total of the dataset
\* written is the length of its puzzle list.
C25_CountsBounded ==
    run.pc \in {"while", "for", "report", "done", "raised"} =>
        /\ Len(run.puzzles) <= run.attempts
        /\ Len(run.puzzles) <= run.num_puzzles
        /\ (run.summary # None /\ run.pc = "done") =>
               LET rate == run.summary[1].success_rate
               IN  /\ rate = <<Len(run.puzzles) * 100, run.attempts>>
                   /\ rate[1] <= 100 * rate[2]
        /\ run.file # None =>
               /\ run.file[1].total = Len(run.file[1].puzzles)
               /\ run.file[1].puzzles = run.puzzles

\* a call has ended with one puzzle in two attempts: a rate of 50
C25_Witness ==
    /\ run.pc = "done"
    /\ run.summary # None
    /\ run.summary[1].success_rate = <<100, 2>>
    /\ run.file[1].total = 1

\* C26: for every puzzle generate_puzzle produces, solve_puzzle returns a
\* non-empty list containing the generated solution; so test_uniqueness never
\* takes the UNSOLVABLE or the UNIQUE (different solution) branch,
\* unsolvable_count stays 0, and a candidate that is not unique has 2 or more
\* solutions.
C26_SolverFindsGenerated ==
    /\ \A d \in RandomOutcomes :
           LET v == verify(d)
           IN  /\ Len(v.solutions) >= 1
               /\ \E k \in 1..Len(v.solutions) : v.solutions[k] = v.puzzle.solution
               /\ ~ is_unique(v.solutions) => Len(v.solutions) >= 2
    /\ run.unsolvable_count = 0
    /\ \A k \in 1..Len(run.printed) :
           run.printed[k].branch \notin {"UNSOLVABLE", "UNIQUE (different solution)"}
    /\ run.puzzle # None =>
           \E k \in 1..Len(run.solutions) : run.solutions[k] = run.puzzle[1].solution

C26_Witness ==
    /\ run.pc = "done"
    /\ \E k \in 1..Len(run.printed) :
           run.printed[k].branch = "UNIQUE (matches generated solution)"
    /\ \E k \in 1..Len(run.printed) : run.printed[k].branch = "NON-UNIQUE"

\* C27: test_uniqueness puts each generated puzzle in exactly one of unique,
\* non-unique, unsolvable: after i puzzles the three counters add up to i, and
\* the returned triple adds up to num_puzzles.
C27_CountersPartition ==
    /\ run.unique_count + run.non_unique_count + run.unsolvable_count = run.i
    /\ run.i = Len(run.printed)
    /\ run.pc = "summary" => run.i = run.num_puzzles
    /\ run.result # None =>
           run.result[1][1] + run.result[1][2] + run.result[1][3] = run.num_puzzles

C27_Witness ==
    /\ run.result # None
    /\ run.num_puzzles >= 2
    /\ run.result[1][1] > 0
    /\ run.result[1][2] > 0

\* C28: one generate_dataset run performs at most 50 * 200 * num_puzzles
\* synthesize+verify cycles (at most 50 per counted attempt), and once an
\* attempt is over the cycles performed are at least the attempts counted.
C28_CyclesBounded ==
    /\ synth.cycles <= MaxAttempts * BudgetFactor * run.num_puzzles
    /\ synth.cycles <= MaxAttempts * run.attempts
    /\ run.pc \in {"while", "report", "done", "raised"} => synth.cycles >= run.attempts
    /\ run.pc = "for" => synth.cycles >= run.attempts - 1

C28_Witness ==
    /\ run.pc = "done"
    /\ Len(run.puzzles) >= 1
    /\ run.attempts > Len(run.puzzles)
    /\ synth.cycles > MaxAttempts
    /\ synth.cycles > run.attempts

\* what deal_freecell has done in the call r, up to the card it is at
C29_Dealt(r) ==
    /\ Len(r.deck) = 52
    /\ \A card \in {create_deck[k] : k \in 1..52} :
           Cardinality({k \in 1..52 : r.deck[k] = card}) = 1
    /\ Len(r.columns) = 8
    /\ \A i \in 0..(r.card_idx - 1) :
           /\ Len(r.columns[(i % 8) + 1]) >= (i \div 8) + 1
           /\ r.columns[(i % 8) + 1][(i \div 8) + 1] = r.deck[i + 1]
    /\ SumSeq([c \in 1..8 |-> Len(r.columns[c])]) = r.card_idx
    /\ r.pc = "done" =>
           /\ r.card_idx = 52
           /\ \A c \in 1..4 : Len(r.result[1][c]) = 7
           /\ \A c \in 5..8 : Len(r.result[1][c]) = 6
           /\ r.result[1] = r.columns

====
